---------------------------- MODULE Spec2Model ----------------------------
(***************************************************************************)
(* Model of the goemini static Gemini server                               *)
(* (cmd/goemini/protocol/gemini.go): the accept loop of _start, the signal *)
(* task, and one handleConnection task per accepted connection, together   *)
(* with the pure helpers parseRequestPath and getFile and the library      *)
(* functions they call (strings, path/filepath, mime), computed on real    *)
(* strings character by character.                                         *)
(***************************************************************************)
EXTENDS Integers, Sequences, FiniteSets, TLC

(***************************************************************************)
(* Bounds of the model.                                                    *)
(***************************************************************************)
\* number of connections the accept loop may accept in one run
MaxConns == 3
\* number of connections in a run whose environment injects transport
\* errors, transient Accept errors and the termination signal
MaxFaultConns == 2
\* bytes moved by one Read/Write round of io.Copy (the library uses 32 KiB)
ChunkSize == 3

(***************************************************************************)
(* Program constants.                                                      *)
(***************************************************************************)
\* buf := make([]byte, 4096)
BufSize == 4096
\* filepath.EvalSymlinks gives up after 255 links
MaxLinks == 255

Conns == 1..MaxConns

(***************************************************************************)
(* package strings                                                         *)
(***************************************************************************)
At(s, i) == SubSeq(s, i, i)

Min(a, b) == IF a < b THEN a ELSE b

HasPrefix(s, p) == Len(s) >= Len(p) /\ SubSeq(s, 1, Len(p)) = p

HasSuffix(s, p) == Len(s) >= Len(p) /\ SubSeq(s, Len(s) - Len(p) + 1, Len(s)) = p

TrimPrefix(s, p) == IF HasPrefix(s, p) THEN SubSeq(s, Len(p) + 1, Len(s)) ELSE s

\* the vertical tab, byte 0x0B, which has no escape in a string of the model
VerticalTab == ""

\* A string of the model is a Go string: one character is one byte.  The
\* bytes 0x20..0x5F and 0x61..0x7E are the ASCII characters, the bytes
\* 0x80..0xFF are the characters U+0080..U+00FF, so that a rune outside
\* ASCII is the two to four characters of its UTF-8 encoding.  (The grave
\* accent 0x60 and the control bytes other than the ASCII white space
\* cannot be written in a string of the model.)
LowBytes == " !\"#$%&'()*+,-./0123456789:;<=>?@ABCDEFGHIJKLMNOPQRSTUVWXYZ[\\]^_"
MidBytes == "abcdefghijklmnopqrstuvwxyz{|}~"
HighBytes == " ¡¢£¤¥¦§¨©ª«¬­®¯°±²³´µ¶·¸¹º»¼½¾¿ÀÁÂÃÄÅÆÇÈÉÊËÌÍÎÏÐÑÒÓÔÕÖ×ØÙÚÛÜÝÞßàáâãäåæçèéêëìíîïðñòóôõö÷øùúûüýþÿ"

Bytes == {9, 10, 11, 12, 13} \cup (32..95) \cup (97..126) \cup (128..255)

\* string(byte(v))
CharOf(v) ==
    IF v = 9 THEN "\t"
    ELSE IF v = 10 THEN "\n"
    ELSE IF v = 11 THEN VerticalTab
    ELSE IF v = 12 THEN "\f"
    ELSE IF v = 13 THEN "\r"
    ELSE IF v < 96 THEN At(LowBytes, v - 31)
    ELSE IF v < 127 THEN At(MidBytes, v - 96)
    ELSE At(HighBytes, v - 127)

ByteTable == [v \in Bytes |-> CharOf(v)]

ValueOf == [ch \in {ByteTable[v] : v \in Bytes} |->
               CHOOSE v \in Bytes : ByteTable[v] = ch]

\* s[i-1] as a number, -1 past the end of s
ByteAt(s, i) == IF i <= Len(s) THEN ValueOf[At(s, i)] ELSE -1

(***************************************************************************)
(* package unicode/utf8                                                    *)
(***************************************************************************)
RuneError == 65533

\* a continuation byte within lo..hi
Accepts(b, lo, hi) == b >= lo /\ b <= hi

\* utf8.DecodeRuneInString on the first four bytes of a string: the rune
\* and its width, (RuneError, 1) for an encoding that is not valid (a
\* stray or missing continuation byte, an overlong form, a surrogate, a
\* value above U+10FFFF)
DecodeBytes(b1, b2, b3, b4) ==
    IF b1 < 128 THEN [rune |-> b1, size |-> 1]
    ELSE IF b1 < 194 \/ b1 > 244 THEN [rune |-> RuneError, size |-> 1]
    ELSE IF b1 < 224
    THEN IF Accepts(b2, 128, 191)
         THEN [rune |-> ((b1 - 192) * 64) + (b2 - 128), size |-> 2]
         ELSE [rune |-> RuneError, size |-> 1]
    ELSE IF b1 < 240
    THEN IF /\ Accepts(b2, IF b1 = 224 THEN 160 ELSE 128,
                           IF b1 = 237 THEN 159 ELSE 191)
            /\ Accepts(b3, 128, 191)
         THEN [rune |-> ((b1 - 224) * 4096) + ((b2 - 128) * 64) + (b3 - 128),
               size |-> 3]
         ELSE [rune |-> RuneError, size |-> 1]
    ELSE IF /\ Accepts(b2, IF b1 = 240 THEN 144 ELSE 128,
                           IF b1 = 244 THEN 143 ELSE 191)
            /\ Accepts(b3, 128, 191)
            /\ Accepts(b4, 128, 191)
         THEN [rune |-> ((b1 - 240) * 262144) + ((b2 - 128) * 4096)
                           + ((b3 - 128) * 64) + (b4 - 128),
               size |-> 4]
         ELSE [rune |-> RuneError, size |-> 1]

\* utf8.DecodeRuneInString, s not empty
DecodeRune(s) ==
    DecodeBytes(ByteAt(s, 1), ByteAt(s, 2), ByteAt(s, 3), ByteAt(s, 4))

\* utf8.RuneStart
RuneStart(b) == b < 128 \/ b > 191

\* the loop of utf8.DecodeLastRuneInString that looks for the first byte of
\* the last rune, from position start down to position lim
RECURSIVE LastRuneStart(_, _, _)
LastRuneStart(s, start, lim) ==
    IF start < lim THEN start
    ELSE IF RuneStart(ByteAt(s, start)) THEN start
    ELSE LastRuneStart(s, start - 1, lim)

\* the rune decoded from position start is the last one only if it ends
\* where s ends
LastRuneFrom(s, start) ==
    IF start - 1 + DecodeRune(SubSeq(s, start, Len(s))).size # Len(s)
    THEN [rune |-> RuneError, size |-> 1]
    ELSE DecodeRune(SubSeq(s, start, Len(s)))

\* utf8.DecodeLastRuneInString, s not empty
DecodeLastRune(s) ==
    IF ByteAt(s, Len(s)) < 128 THEN [rune |-> ByteAt(s, Len(s)), size |-> 1]
    ELSE LastRuneFrom(s, IF LastRuneStart(s, Len(s) - 1,
                                          IF Len(s) > 4 THEN Len(s) - 3 ELSE 1) < 1
                         THEN 1
                         ELSE LastRuneStart(s, Len(s) - 1,
                                            IF Len(s) > 4 THEN Len(s) - 3 ELSE 1))

\* utf8.AppendRune: the UTF-8 encoding of rune r
EncodeRune(r) ==
    IF r < 128 THEN CharOf(r)
    ELSE IF r < 2048
    THEN CharOf(192 + (r \div 64)) \o CharOf(128 + (r % 64))
    ELSE IF r < 65536
    THEN CharOf(224 + (r \div 4096)) \o CharOf(128 + ((r \div 64) % 64))
            \o CharOf(128 + (r % 64))
    ELSE CharOf(240 + (r \div 262144)) \o CharOf(128 + ((r \div 4096) % 64))
            \o CharOf(128 + ((r \div 64) % 64)) \o CharOf(128 + (r % 64))

(***************************************************************************)
(* package unicode                                                         *)
(***************************************************************************)
\* unicode.IsSpace: the ASCII white space '\t', '\n', '\v', '\f', '\r',
\* ' ', then U+0085, U+00A0 and the White_Space property above Latin-1
IsSpace(r) ==
    \/ r \in {9, 10, 11, 12, 13, 32, 133, 160, 5760}
    \/ r \in 8192..8202
    \/ r \in {8232, 8233, 8239, 8287, 12288}

\* the runes above ASCII that have a lower case, as <<first, last, stride,
\* delta>>: a rune of a range, stride apart from its first, maps to itself
\* plus delta (Unicode simple case mapping)
CaseRanges ==
    << <<192, 214, 1, 32>>, <<216, 222, 1, 32>>, <<256, 302, 2, 1>>,
       <<304, 304, 1, -199>>, <<306, 310, 2, 1>>, <<313, 327, 2, 1>>,
       <<330, 374, 2, 1>>, <<376, 376, 1, -121>>, <<377, 381, 2, 1>>,
       <<385, 385, 1, 210>>, <<386, 388, 2, 1>>, <<390, 390, 1, 206>>,
       <<391, 391, 1, 1>>, <<393, 394, 1, 205>>, <<395, 395, 1, 1>>,
       <<398, 398, 1, 79>>, <<399, 399, 1, 202>>, <<400, 400, 1, 203>>,
       <<401, 401, 1, 1>>, <<403, 403, 1, 205>>, <<404, 404, 1, 207>>,
       <<406, 406, 1, 211>>, <<407, 407, 1, 209>>, <<408, 408, 1, 1>>,
       <<412, 412, 1, 211>>, <<413, 413, 1, 213>>, <<415, 415, 1, 214>>,
       <<416, 420, 2, 1>>, <<422, 422, 1, 218>>, <<423, 423, 1, 1>>,
       <<425, 425, 1, 218>>, <<428, 428, 1, 1>>, <<430, 430, 1, 218>>,
       <<431, 431, 1, 1>>, <<433, 434, 1, 217>>, <<435, 437, 2, 1>>,
       <<439, 439, 1, 219>>, <<440, 440, 1, 1>>, <<444, 444, 1, 1>>,
       <<452, 452, 1, 2>>, <<453, 453, 1, 1>>, <<455, 455, 1, 2>>,
       <<456, 456, 1, 1>>, <<458, 458, 1, 2>>, <<459, 475, 2, 1>>,
       <<478, 494, 2, 1>>, <<497, 497, 1, 2>>, <<498, 500, 2, 1>>,
       <<502, 502, 1, -97>>, <<503, 503, 1, -56>>, <<504, 542, 2, 1>>,
       <<544, 544, 1, -130>>, <<546, 562, 2, 1>>, <<570, 570, 1, 10795>>,
       <<571, 571, 1, 1>>, <<573, 573, 1, -163>>, <<574, 574, 1, 10792>>,
       <<577, 577, 1, 1>>, <<579, 579, 1, -195>>, <<580, 580, 1, 69>>,
       <<581, 581, 1, 71>>, <<582, 590, 2, 1>>, <<880, 882, 2, 1>>,
       <<886, 886, 1, 1>>, <<895, 895, 1, 116>>, <<902, 902, 1, 38>>,
       <<904, 906, 1, 37>>, <<908, 908, 1, 64>>, <<910, 911, 1, 63>>,
       <<913, 929, 1, 32>>, <<931, 939, 1, 32>>, <<975, 975, 1, 8>>,
       <<984, 1006, 2, 1>>, <<1012, 1012, 1, -60>>, <<1015, 1015, 1, 1>>,
       <<1017, 1017, 1, -7>>, <<1018, 1018, 1, 1>>,
       <<1021, 1023, 1, -130>>, <<1024, 1039, 1, 80>>,
       <<1040, 1071, 1, 32>>, <<1120, 1152, 2, 1>>, <<1162, 1214, 2, 1>>,
       <<1216, 1216, 1, 15>>, <<1217, 1229, 2, 1>>, <<1232, 1326, 2, 1>>,
       <<1329, 1366, 1, 48>>, <<4256, 4293, 1, 7264>>,
       <<4295, 4295, 1, 7264>>, <<4301, 4301, 1, 7264>>,
       <<5024, 5103, 1, 38864>>, <<5104, 5109, 1, 8>>,
       <<7312, 7354, 1, -3008>>, <<7357, 7359, 1, -3008>>,
       <<7680, 7828, 2, 1>>, <<7838, 7838, 1, -7615>>,
       <<7840, 7934, 2, 1>>, <<7944, 7951, 1, -8>>, <<7960, 7965, 1, -8>>,
       <<7976, 7983, 1, -8>>, <<7992, 7999, 1, -8>>, <<8008, 8013, 1, -8>>,
       <<8025, 8031, 2, -8>>, <<8040, 8047, 1, -8>>, <<8072, 8079, 1, -8>>,
       <<8088, 8095, 1, -8>>, <<8104, 8111, 1, -8>>, <<8120, 8121, 1, -8>>,
       <<8122, 8123, 1, -74>>, <<8124, 8124, 1, -9>>,
       <<8136, 8139, 1, -86>>, <<8140, 8140, 1, -9>>,
       <<8152, 8153, 1, -8>>, <<8154, 8155, 1, -100>>,
       <<8168, 8169, 1, -8>>, <<8170, 8171, 1, -112>>,
       <<8172, 8172, 1, -7>>, <<8184, 8185, 1, -128>>,
       <<8186, 8187, 1, -126>>, <<8188, 8188, 1, -9>>,
       <<8486, 8486, 1, -7517>>, <<8490, 8490, 1, -8383>>,
       <<8491, 8491, 1, -8262>>, <<8498, 8498, 1, 28>>,
       <<8544, 8559, 1, 16>>, <<8579, 8579, 1, 1>>, <<9398, 9423, 1, 26>>,
       <<11264, 11311, 1, 48>>, <<11360, 11360, 1, 1>>,
       <<11362, 11362, 1, -10743>>, <<11363, 11363, 1, -3814>>,
       <<11364, 11364, 1, -10727>>, <<11367, 11371, 2, 1>>,
       <<11373, 11373, 1, -10780>>, <<11374, 11374, 1, -10749>>,
       <<11375, 11375, 1, -10783>>, <<11376, 11376, 1, -10782>>,
       <<11378, 11378, 1, 1>>, <<11381, 11381, 1, 1>>,
       <<11390, 11391, 1, -10815>>, <<11392, 11490, 2, 1>>,
       <<11499, 11501, 2, 1>>, <<11506, 11506, 1, 1>>,
       <<42560, 42604, 2, 1>>, <<42624, 42650, 2, 1>>,
       <<42786, 42798, 2, 1>>, <<42802, 42862, 2, 1>>,
       <<42873, 42875, 2, 1>>, <<42877, 42877, 1, -35332>>,
       <<42878, 42886, 2, 1>>, <<42891, 42891, 1, 1>>,
       <<42893, 42893, 1, -42280>>, <<42896, 42898, 2, 1>>,
       <<42902, 42920, 2, 1>>, <<42922, 42922, 1, -42308>>,
       <<42923, 42923, 1, -42319>>, <<42924, 42924, 1, -42315>>,
       <<42925, 42925, 1, -42305>>, <<42926, 42926, 1, -42308>>,
       <<42928, 42928, 1, -42258>>, <<42929, 42929, 1, -42282>>,
       <<42930, 42930, 1, -42261>>, <<42931, 42931, 1, 928>>,
       <<42932, 42946, 2, 1>>, <<42948, 42948, 1, -48>>,
       <<42949, 42949, 1, -42307>>, <<42950, 42950, 1, -35384>>,
       <<42951, 42953, 2, 1>>, <<42960, 42960, 1, 1>>,
       <<42966, 42968, 2, 1>>, <<42997, 42997, 1, 1>>,
       <<65313, 65338, 1, 32>>, <<66560, 66599, 1, 40>>,
       <<66736, 66771, 1, 40>>, <<66928, 66938, 1, 39>>,
       <<66940, 66954, 1, 39>>, <<66956, 66962, 1, 39>>,
       <<66964, 66965, 1, 39>>, <<68736, 68786, 1, 64>>,
       <<71840, 71871, 1, 32>>, <<93760, 93791, 1, 32>>,
       <<125184, 125217, 1, 34>> >>

\* unicode.ToLower
UnicodeToLower(r) ==
    IF r \in 65..90 THEN r + 32
    ELSE IF r < 128 THEN r
    ELSE IF \E k \in 1..Len(CaseRanges) :
                /\ r >= CaseRanges[k][1]
                /\ r <= CaseRanges[k][2]
                /\ (r - CaseRanges[k][1]) % CaseRanges[k][3] = 0
    THEN r + CaseRanges[CHOOSE k \in 1..Len(CaseRanges) :
                            /\ r >= CaseRanges[k][1]
                            /\ r <= CaseRanges[k][2]
                            /\ (r - CaseRanges[k][1]) % CaseRanges[k][3] = 0][4]
    ELSE r

(***************************************************************************)
(* package strings, continued                                              *)
(***************************************************************************)
\* strings.TrimLeftFunc(s, unicode.IsSpace)
RECURSIVE TrimLeft(_)
TrimLeft(s) ==
    IF Len(s) > 0 /\ IsSpace(DecodeRune(s).rune)
    THEN TrimLeft(SubSeq(s, DecodeRune(s).size + 1, Len(s)))
    ELSE s

\* strings.TrimRightFunc(s, unicode.IsSpace)
RECURSIVE TrimRight(_)
TrimRight(s) ==
    IF Len(s) > 0 /\ IsSpace(DecodeLastRune(s).rune)
    THEN TrimRight(SubSeq(s, 1, Len(s) - DecodeLastRune(s).size))
    ELSE s

TrimSpace(s) == TrimRight(TrimLeft(s))

\* strings.Index(s, "/") + 1: position of the first slash, 0 when there is none
RECURSIVE IndexSlashFrom(_, _)
IndexSlashFrom(s, i) ==
    IF i > Len(s) THEN 0
    ELSE IF At(s, i) = "/" THEN i
    ELSE IndexSlashFrom(s, i + 1)

IndexSlash(s) == IndexSlashFrom(s, 1)

\* strings.SplitN(s, "/", 2)
SplitN2(s) ==
    LET i == IndexSlash(s)
    IN  IF i = 0 THEN <<s>>
        ELSE <<SubSeq(s, 1, i - 1), SubSeq(s, i + 1, Len(s))>>

\* strings.Split(s, "/"): every slash-separated element, empty ones included
RECURSIVE SplitSlash(_)
SplitSlash(s) ==
    LET i == IndexSlash(s)
    IN  IF i = 0 THEN <<s>>
        ELSE <<SubSeq(s, 1, i - 1)>> \o SplitSlash(SubSeq(s, i + 1, Len(s)))

\* strings.Join(elems, "/")
RECURSIVE JoinSlash(_)
JoinSlash(elems) ==
    IF elems = <<>> THEN ""
    ELSE IF Len(elems) = 1 THEN elems[1]
    ELSE elems[1] \o "/" \o JoinSlash(Tail(elems))

\* strings.ToLower: every rune in its lower case, every byte that is not
\* part of a valid encoding replaced by the encoding of RuneError
RECURSIVE ToLower(_)
ToLower(s) ==
    IF Len(s) = 0 THEN ""
    ELSE EncodeRune(UnicodeToLower(DecodeRune(s).rune))
            \o ToLower(SubSeq(s, DecodeRune(s).size + 1, Len(s)))

(***************************************************************************)
(* package path/filepath (Unix)                                            *)
(***************************************************************************)
\* the element stack of Clean: "." and empty elements vanish, ".." removes
\* the element before it, is dropped at the root, and is kept in front of a
\* relative path
RECURSIVE CleanElems(_, _, _)
CleanElems(elems, out, rooted) ==
    IF elems = <<>> THEN out
    ELSE LET e == Head(elems)
             rest == Tail(elems)
         IN  IF e = "" \/ e = "." THEN CleanElems(rest, out, rooted)
             ELSE IF e = ".."
             THEN IF Len(out) > 0 /\ out[Len(out)] # ".."
                  THEN CleanElems(rest, SubSeq(out, 1, Len(out) - 1), rooted)
                  ELSE IF rooted THEN CleanElems(rest, out, rooted)
                  ELSE CleanElems(rest, Append(out, ".."), rooted)
             ELSE CleanElems(rest, Append(out, e), rooted)

Clean(p) ==
    IF p = "" THEN "."
    ELSE LET rooted == At(p, 1) = "/"
             out == CleanElems(SplitSlash(p), <<>>, rooted)
         IN  IF rooted THEN "/" \o JoinSlash(out)
             ELSE IF out = <<>> THEN "." ELSE JoinSlash(out)

\* filepath.Join(a, b)
Join(a, b) ==
    IF a = "" /\ b = "" THEN ""
    ELSE IF a = "" THEN Clean(b)
    ELSE IF b = "" THEN Clean(a)
    ELSE Clean(a \o "/" \o b)

IsAbs(p) == HasPrefix(p, "/")

\* filepath.Ext: the suffix from the last dot of the last element
RECURSIVE ExtFrom(_, _)
ExtFrom(p, i) ==
    IF i < 1 \/ At(p, i) = "/" THEN ""
    ELSE IF At(p, i) = "." THEN SubSeq(p, i, Len(p))
    ELSE ExtFrom(p, i - 1)

Ext(p) == ExtFrom(p, Len(p))

(***************************************************************************)
(* The filesystem the server runs on.  It does not change while the server *)
(* runs.  A node is a directory, a regular file (with its bytes and        *)
(* whether this process may read it) or a symbolic link (with its target). *)
(***************************************************************************)
Dir == [kind |-> "dir", data |-> "", target |-> "", readable |-> TRUE]
File(d) == [kind |-> "file", data |-> d, target |-> "", readable |-> TRUE]
Unreadable(d) == [kind |-> "file", data |-> d, target |-> "", readable |-> FALSE]
Link(t) == [kind |-> "link", data |-> "", target |-> t, readable |-> TRUE]

FS ==
    ("/" :> Dir) @@
    ("/srv" :> Dir) @@
    ("/srv/gemini" :> Dir) @@
    ("/srv/gemini/index.gmi" :> File("# home")) @@
    ("/srv/gemini/a.gmi" :> File("abcd")) @@
    ("/srv/gemini/B.GMI" :> File("up")) @@
    ("/srv/gemini/empty.gmi" :> File("")) @@
    ("/srv/gemini/docs" :> Dir) @@
    ("/srv/gemini/docs/index.gmi" :> File("docs")) @@
    ("/srv/gemini/notes.md" :> File("# n")) @@
    ("/srv/gemini/raw" :> File("xyz")) @@
    ("/srv/gemini/pic.png" :> File("PNG")) @@
    ("/srv/gemini/secret.gmi" :> Unreadable("s3")) @@
    ("/srv/gemini/alias" :> Link("a.gmi")) @@
    ("/srv/gemini/out" :> Link("/etc/passwd")) @@
    ("/srv/gemini-old" :> Dir) @@
    ("/srv/gemini-old/k.gmi" :> File("key")) @@
    ("/etc" :> Dir) @@
    ("/etc/passwd" :> File("root")) @@
    ("/current" :> Link("/srv"))

\* the --path flag, and the working directory the process is started in
ServeFlag == "./gemini"
Cwd == "/srv"

\* what os.Getwd returns to filepath.Abs: $PWD when it names the working
\* directory, also when it reaches it through a symbolic link (a shell that
\* entered /current), and the directory's own path otherwise
WorkingDirs == {"/srv", "/current"}

Exists(p) == p \in DOMAIN FS

\* the last slash of p after its first volLen characters, 0 when there is none
RECURSIVE LastSlashFrom(_, _, _)
LastSlashFrom(p, i, volLen) ==
    IF i <= volLen THEN 0
    ELSE IF At(p, i) = "/" THEN i
    ELSE LastSlashFrom(p, i - 1, volLen)

LastSlash(p, volLen) == LastSlashFrom(p, Len(p), volLen)

\* os.Lstat and os.Readlink of dest: a relative name is looked up from the
\* working directory
Lookup(dest) == IF IsAbs(dest) THEN Clean(dest) ELSE Join(Cwd, dest)

\* walkSymlinks: dest is the part resolved so far, elems the elements still
\* to walk, links the number of links followed, volLen the length of the
\* leading "/" (1 once the walk is absolute, 0 while it is relative) and
\* vol that leading "/" ("" while the walk is relative); a link to an
\* absolute path makes the walk absolute
RECURSIVE Walk(_, _, _, _, _)
Walk(dest, elems, links, volLen, vol) ==
    IF elems = <<>> THEN [ok |-> TRUE, path |-> Clean(dest)]
    ELSE
      LET e == Head(elems)
          rest == Tail(elems)
      IN
        IF e = "" \/ e = "." THEN Walk(dest, rest, links, volLen, vol)
        ELSE IF e = ".."
        THEN LET r == LastSlash(dest, volLen)
             IN  IF r = 0 \/ SubSeq(dest, r + 1, Len(dest)) = ".."
                 THEN Walk((IF Len(dest) > volLen THEN dest \o "/" ELSE dest)
                              \o "..",
                           rest, links, volLen, vol)
                 ELSE Walk(SubSeq(dest, 1, r - 1), rest, links, volLen, vol)
        ELSE
          LET d == (IF Len(dest) > 0 /\ At(dest, Len(dest)) # "/"
                    THEN dest \o "/" ELSE dest) \o e
              n == Lookup(d)
          IN
            IF ~Exists(n) THEN [ok |-> FALSE, path |-> ""]
            ELSE IF FS[n].kind # "link"
            THEN IF FS[n].kind # "dir" /\ rest # <<>>
                 THEN [ok |-> FALSE, path |-> ""]
                 ELSE Walk(d, rest, links, volLen, vol)
            ELSE IF links + 1 > MaxLinks THEN [ok |-> FALSE, path |-> ""]
            ELSE LET link == FS[n].target
                     r == LastSlash(d, volLen)
                 IN  IF IsAbs(link)
                     THEN Walk("/", SplitSlash(link) \o rest, links + 1, 1, "/")
                     ELSE Walk(IF r = 0 THEN vol ELSE SubSeq(d, 1, r - 1),
                               SplitSlash(link) \o rest, links + 1, volLen, vol)

\* filepath.EvalSymlinks: an absolute path is walked from "/", a relative
\* path (the empty path included) from "" and stays relative
EvalSymlinks(p) ==
    IF IsAbs(p) THEN Walk("/", SplitSlash(p), 0, 1, "/")
    ELSE Walk("", SplitSlash(p), 0, 0, "")

\* filepath.Abs, w being what os.Getwd returns
Abs(p, w) == IF IsAbs(p) THEN Clean(p) ELSE Join(w, p)

\* _start: servePath is the flag with symlinks evaluated, made absolute
servePath(w) == Abs(EvalSymlinks(ServeFlag).path, w)

(***************************************************************************)
(* package mime, as _start sets it up                                      *)
(***************************************************************************)
\* mime.AddExtensionType stores a text type with a charset parameter
AddExtensionType(typ) ==
    IF HasPrefix(typ, "text/") THEN typ \o "; charset=utf-8" ELSE typ

\* the table TypeByExtension reads: Go's built-in types and the four
\* _start registers, on a host with no mime.types file
MimeTypes ==
    (".avif" :> "image/avif") @@
    (".css" :> "text/css; charset=utf-8") @@
    (".gif" :> "image/gif") @@
    (".htm" :> "text/html; charset=utf-8") @@
    (".html" :> "text/html; charset=utf-8") @@
    (".jpeg" :> "image/jpeg") @@
    (".jpg" :> "image/jpeg") @@
    (".js" :> "text/javascript; charset=utf-8") @@
    (".json" :> "application/json") @@
    (".mjs" :> "text/javascript; charset=utf-8") @@
    (".pdf" :> "application/pdf") @@
    (".png" :> "image/png") @@
    (".svg" :> "image/svg+xml") @@
    (".wasm" :> "application/wasm") @@
    (".webp" :> "image/webp") @@
    (".xml" :> "text/xml; charset=utf-8") @@
    (".gmi" :> AddExtensionType("text/gemini")) @@
    (".gmni" :> AddExtensionType("text/gemini")) @@
    (".gemini" :> AddExtensionType("text/gemini")) @@
    (".md" :> AddExtensionType("text/markdown"))

\* mime.TypeByExtension: exact match first, lower-cased match second, ""
\* for an extension that is not registered
TypeByExtension(ext) ==
    IF ext \in DOMAIN MimeTypes THEN MimeTypes[ext]
    ELSE IF ToLower(ext) \in DOMAIN MimeTypes THEN MimeTypes[ToLower(ext)]
    ELSE ""

(***************************************************************************)
(* parseRequestPath and getFile                                            *)
(***************************************************************************)
ErrNone == "nil"
ErrBadRequest == "bad request"
ErrFileNotFound == "file not found"
ErrNaughty == "you naughty hacker :)"
Panic == "panic: index out of range [1] with length 1"
NoFile == "<nil>"

\* parseRequestPath without the scheme check
parseRequestPathAnyScheme(req) ==
    LET parts == SplitN2(TrimPrefix(TrimSpace(req), "gemini://"))
    IN  IF Len(parts) < 2
        THEN [path |-> "", err |-> Panic]
        ELSE [path |-> parts[2], err |-> ErrNone]

parseRequestPath(req) ==
    LET trimmed == TrimSpace(req)
    IN  IF ~HasPrefix(trimmed, "gemini://")
        THEN [path |-> "", err |-> ErrBadRequest]
        ELSE LET parts == SplitN2(TrimPrefix(trimmed, "gemini://"))
             IN  IF Len(parts) < 2
                 THEN [path |-> "", err |-> Panic]
                 ELSE [path |-> parts[2], err |-> ErrNone]

\* the default document without the test for the empty path
DefaultDocumentSlashOnly(p) ==
    IF HasSuffix(p, "/") THEN p \o "index.gmi" ELSE p

\* handleConnection: a path that is empty or ends in "/" gets "index.gmi"
DefaultDocument(p) ==
    IF p = "" \/ HasSuffix(p, "/") THEN p \o "index.gmi" ELSE p

\* the traversal check of getFile
InServePath(p, w) == HasPrefix(p, servePath(w))

\* os.OpenFile(path, O_RDONLY): the node must exist and be readable
CanOpen(p) == Exists(p) /\ FS[p].readable

\* getFile from the traversal check on: abs is the symlink-resolved absolute
\* path; the check, os.OpenFile, mime.TypeByExtension
openResolved(abs, w) ==
    IF ~InServePath(abs, w)
    THEN [file |-> NoFile, mime |-> "", err |-> ErrNaughty,
          ops |-> <<"EvalSymlinks">>]
    ELSE IF ~CanOpen(abs)
    THEN [file |-> NoFile, mime |-> "", err |-> ErrFileNotFound,
          ops |-> <<"EvalSymlinks", "OpenFile">>]
    ELSE [file |-> abs, mime |-> TypeByExtension(Ext(abs)), err |-> ErrNone,
          ops |-> <<"EvalSymlinks", "OpenFile">>]

\* getFile from the result ev of filepath.EvalSymlinks on: its error is
\* reported as ErrBadRequest, its path is made absolute
afterEvalSymlinks(ev, w) ==
    IF ~ev.ok
    THEN [file |-> NoFile, mime |-> "", err |-> ErrBadRequest,
          ops |-> <<"EvalSymlinks">>]
    ELSE openResolved(Abs(ev.path, w), w)

\* getFile: the file handle (the path that was opened), the media type, the
\* error, and the filesystem operations performed
getFile(p, w) ==
    afterEvalSymlinks(EvalSymlinks(Join(servePath(w), Clean(p))), w)

(***************************************************************************)
(* What clients send: the bytes the handler's one Read returns.            *)
(* The requests and the file names of the runs are ASCII: a state holds    *)
(* no byte above 0x7F, and what package strings does with such bytes is    *)
(* in the definitions above.                                               *)
(***************************************************************************)
Requests ==
    { "gemini://h/a.gmi\r\n",
      " gemini://h/a.gmi",
      "gemini://h/\r\n",
      "gemini://h/docs/\r\n",
      "gemini://h/notes.md\r\n",
      "gemini://h/raw\r\n",
      "gemini://h/pic.png\r\n",
      VerticalTab \o "gemini://h/a.gmi" \o VerticalTab,
      "gemini://h/B.GMI\r\n",
      "gemini://h/empty.gmi\r\n",
      "gemini://h/alias\r\n",
      "gemini://h/missing.gmi\r\n",
      "gemini://h/secret.gmi\r\n",
      "gemini://h/out\r\n",
      "gemini://h/../../etc/passwd\r\n",
      "gemini://h/../gemini-old/k.gmi\r\n",
      "gemini://h/docs\r\n",
      "gemini://h\r\n",
      "http://h/a.gmi\r\n",
      "/a.gmi\r\n",
      "" }

\* what clients send in the runs with several connections at once and
\* faults
ConcurrentRequests ==
    { "gemini://h/a.gmi\r\n",
      "http://h/a.gmi\r\n",
      "gemini://h\r\n" }

\* what clients send in the runs with MaxConns connections and no fault
QuietRequests ==
    { "gemini://h/a.gmi\r\n",
      "gemini://h/notes.md\r\n" }

AllRequests == Requests \cup ConcurrentRequests \cup QuietRequests

\* request := string(buf[:n]): at most BufSize bytes of what the client sent
ReadRequest(data) == SubSeq(data, 1, Min(Len(data), BufSize))

\* parseRequestPath and getFile are functions of their argument alone (the
\* filesystem does not change): their results for what clients may send are
\* computed once, and computed on the spot for any other argument
ParsedRequests ==
    [r \in {ReadRequest(d) : d \in AllRequests} |-> parseRequestPath(r)]

ParseRequest(r) ==
    IF r \in DOMAIN ParsedRequests THEN ParsedRequests[r]
    ELSE parseRequestPath(r)

ResolvedPaths ==
    [w \in WorkingDirs |->
        [p \in {DefaultDocument(ParsedRequests[r].path) :
                    r \in DOMAIN ParsedRequests}
            |-> getFile(p, w)]]

GetFile(p, w) ==
    IF p \in DOMAIN ResolvedPaths[w] THEN ResolvedPaths[w][p]
    ELSE getFile(p, w)

(***************************************************************************)
(* State.                                                                  *)
(***************************************************************************)
VARIABLES
    wd,            \* what os.Getwd returns in this process
    limit,         \* how many clients connect in this run
    inputs,        \* what those clients may send
    faults,        \* the environment of this run injects transport errors,
                   \* transient Accept errors and the termination signal
    looppc,        \* the accept loop of _start: "accept", "dispatch",
                   \* "accepterr", "returned"
    acceptErr,     \* the loop's err: the error the last Accept returned
    sigpc,         \* the signal task: "wait", "close", "signal", "done"
    listener,      \* "open" or "closed"
    shutdownChan,  \* "open" or "closed"
    failLogged,    \* the Accept errors logged as "Failed to accept connection"
    exited,        \* the process ended after _start returned
    crashed,       \* a handler panicked: the process is gone
    pc,            \* per connection: where its handleConnection task is
    conn,          \* per connection: the socket, "none", "open", or "closed"
                   \* once conn.Close() was called
    request,       \* per connection: string(buf[:n])
    path,          \* per connection: the path handed to getFile
    file,          \* per connection: the file handle getFile returned
    mime,          \* per connection: the media type getFile returned
    err,           \* per connection: the error of the last call
    handle,        \* per connection: "none", "open" or "closed" file handle
    off,           \* per connection: bytes of the file already copied
    writes,        \* per connection: the payloads of its conn.Write calls
    fsops,         \* per connection: the filesystem operations performed
    werr           \* per connection: a conn.Write returned an error

vars == <<wd, limit, inputs, faults, looppc, acceptErr, sigpc, listener, shutdownChan,
          failLogged, exited, crashed, pc, conn, request, path, file, mime,
          err, handle, off, writes, fsops, werr>>

server == <<wd, limit, inputs, faults, looppc, acceptErr, sigpc, listener, shutdownChan,
            failLogged, exited>>

\* the variables of the connection handlers
handlers == <<crashed, pc, conn, request, path, file, mime, err, handle, off,
              writes, fsops, werr>>

\* the errors listener.Accept returns
ErrClosed == "use of closed network connection"
ErrTransient == "accept: too many open files"

BadRequestLine == "59 Bad Request\r\n"
NotFoundLine == "51 Not Found\r\n"
SuccessLine(m) == "20 " \o m \o "\r\n"

\* a run has one client that may send anything, in either working
\* directory, or MaxFaultConns clients at once, in both cases with faults
\* and the termination signal, or MaxConns clients at once with neither
Init ==
    /\ \/ wd \in WorkingDirs /\ limit = 1 /\ inputs = Requests /\ faults = TRUE
       \/ /\ wd = Cwd /\ limit = MaxFaultConns /\ inputs = ConcurrentRequests
          /\ faults = TRUE
       \/ /\ wd = Cwd /\ limit = MaxConns /\ inputs = QuietRequests
          /\ faults = FALSE
    /\ looppc = "accept"
    /\ acceptErr = ErrNone
    /\ sigpc = "wait"
    /\ listener = "open"
    /\ shutdownChan = "open"
    /\ failLogged = {}
    /\ exited = FALSE
    /\ crashed = FALSE
    /\ pc = [c \in Conns |-> "pending"]
    /\ conn = [c \in Conns |-> "none"]
    /\ request = [c \in Conns |-> ""]
    /\ path = [c \in Conns |-> ""]
    /\ file = [c \in Conns |-> NoFile]
    /\ mime = [c \in Conns |-> ""]
    /\ err = [c \in Conns |-> ErrNone]
    /\ handle = [c \in Conns |-> "none"]
    /\ off = [c \in Conns |-> 0]
    /\ writes = [c \in Conns |-> <<>>]
    /\ fsops = [c \in Conns |-> <<>>]
    /\ werr = [c \in Conns |-> FALSE]

(***************************************************************************)
(* _start: the accept loop and the signal task.                            *)
(***************************************************************************)
\* the process runs: no handler panicked and main has not returned
Running == ~crashed /\ ~exited

\* conn, err := listener.Accept() returns the next connection
Accept(c) ==
    /\ Running
    /\ looppc = "accept"
    /\ listener = "open"
    /\ c <= limit
    /\ pc[c] = "pending"
    /\ \A d \in Conns : d < c => pc[d] # "pending"
    /\ pc' = [pc EXCEPT ![c] = "accepted"]
    /\ conn' = [conn EXCEPT ![c] = "open"]
    /\ looppc' = "dispatch"
    /\ acceptErr' = ErrNone
    /\ UNCHANGED <<wd, limit, inputs, faults, sigpc, listener, shutdownChan, failLogged,
                   exited, crashed, request, path, file, mime, err, handle,
                   off, writes, fsops, werr>>

\* go handleConnection(conn)
Dispatch ==
    /\ Running
    /\ looppc = "dispatch"
    /\ pc' = [c \in Conns |-> IF pc[c] = "accepted" THEN "reading" ELSE pc[c]]
    /\ looppc' = "accept"
    /\ UNCHANGED <<wd, limit, inputs, faults, acceptErr, sigpc, listener, shutdownChan,
                   failLogged, exited, crashed, conn, request, path, file,
                   mime, err, handle, off, writes, fsops, werr>>

\* listener.Accept() returns an error: always once the listener is closed,
\* and possibly (a transient failure) while it is open
AcceptError ==
    /\ Running
    /\ looppc = "accept"
    /\ listener = "closed" \/ faults
    /\ looppc' = "accepterr"
    /\ acceptErr' = IF listener = "closed" THEN ErrClosed ELSE ErrTransient
    /\ UNCHANGED <<wd, limit, inputs, faults, sigpc, listener, shutdownChan, failLogged,
                   exited, handlers>>

\* the select on shutdownChan after a failed Accept; the deferred
\* listener.Close() runs when _start returns
LoopSelect ==
    /\ Running
    /\ looppc = "accepterr"
    /\ IF shutdownChan = "closed"
       THEN /\ looppc' = "returned"
            /\ listener' = "closed"
            /\ UNCHANGED failLogged
       ELSE /\ looppc' = "accept"
            /\ failLogged' = failLogged \cup {acceptErr}
            /\ UNCHANGED listener
    /\ UNCHANGED <<wd, limit, inputs, faults, acceptErr, sigpc, shutdownChan, exited,
                   handlers>>

\* <-signalChan
SignalReceive ==
    /\ Running
    /\ faults
    /\ sigpc = "wait"
    /\ sigpc' = "close"
    /\ UNCHANGED <<wd, limit, inputs, faults, looppc, acceptErr, listener, shutdownChan,
                   failLogged, exited, handlers>>

\* the signal task going on to close(shutdownChan) without listener.Close()
SignalCloseListenerDropped ==
    /\ Running
    /\ sigpc = "close"
    /\ sigpc' = "signal"
    /\ UNCHANGED <<wd, limit, inputs, faults, looppc, acceptErr, listener, shutdownChan,
                   failLogged, exited, handlers>>

\* listener.Close()
SignalCloseListener ==
    /\ Running
    /\ sigpc = "close"
    /\ sigpc' = "signal"
    /\ listener' = "closed"
    /\ UNCHANGED <<wd, limit, inputs, faults, looppc, acceptErr, shutdownChan,
                   failLogged, exited, handlers>>

\* close(shutdownChan)
SignalCloseChan ==
    /\ Running
    /\ sigpc = "signal"
    /\ sigpc' = "done"
    /\ shutdownChan' = "closed"
    /\ UNCHANGED <<wd, limit, inputs, faults, looppc, acceptErr, listener, failLogged,
                   exited, handlers>>

\* the caller of _start: the process ends once _start has returned and the
\* handlers that were dispatched have run to completion
ProcessExit ==
    /\ Running
    /\ looppc = "returned"
    /\ \A c \in Conns : pc[c] \in {"pending", "closed"}
    /\ exited' = TRUE
    /\ UNCHANGED <<wd, limit, inputs, faults, looppc, acceptErr, sigpc, listener,
                   shutdownChan, failLogged, handlers>>

(***************************************************************************)
(* handleConnection, one task per accepted connection.  Every call on the  *)
(* socket or on the file is a step of its own; a return leaves the handler *)
(* at "returning" until its deferred conn.Close() has run.                 *)
(***************************************************************************)
\* what a conn.Read or conn.Write may return in this run: success, and an
\* error when the environment injects faults
IOResults == IF faults THEN BOOLEAN ELSE {TRUE}

\* n, err := conn.Read(buf); request := string(buf[:n]).  A failed read is
\* logged and the handler returns.
HandleRead(c) ==
    /\ Running
    /\ pc[c] = "reading"
    /\ \/ \E data \in inputs :
            /\ request' = [request EXCEPT ![c] = ReadRequest(data)]
            /\ pc' = [pc EXCEPT ![c] = "parsing"]
            /\ UNCHANGED err
       \/ /\ faults
          /\ err' = [err EXCEPT ![c] = "read error"]
          /\ pc' = [pc EXCEPT ![c] = "returning"]
          /\ UNCHANGED request
    /\ UNCHANGED <<server, crashed, conn, path, file, mime, handle, off,
                   writes, fsops, werr>>

\* path, err := parseRequestPath(request), and the default document.  The
\* index out of range in parseRequestPath starts a panic.
HandleParse(c) ==
    /\ Running
    /\ pc[c] = "parsing"
    /\ LET r == ParseRequest(request[c])
       IN  /\ err' = [err EXCEPT ![c] = r.err]
           /\ IF r.err = Panic
              THEN /\ pc' = [pc EXCEPT ![c] = "panicking"]
                   /\ UNCHANGED path
              ELSE IF r.err # ErrNone
              THEN /\ pc' = [pc EXCEPT ![c] = "badrequest"]
                   /\ UNCHANGED path
              ELSE /\ path' = [path EXCEPT ![c] = DefaultDocument(r.path)]
                   /\ pc' = [pc EXCEPT ![c] = "resolving"]
    /\ UNCHANGED <<server, crashed, conn, request, file, mime, handle, off,
                   writes, fsops, werr>>

\* conn.Write([]byte(response)) of an error reply: the result of the call is
\* dropped, so err keeps its value and the handler goes on to nextPc whether
\* or not the write failed
reply(c, response, nextPc) ==
    /\ writes' = [writes EXCEPT ![c] = Append(@, response)]
    /\ \E ok \in IOResults : werr' = [werr EXCEPT ![c] = ~ok]
    /\ pc' = [pc EXCEPT ![c] = nextPc]
    /\ UNCHANGED <<server, crashed, conn, request, path, file, mime, err,
                   handle, off, fsops>>

\* response := "59 Bad Request\r\n"; conn.Write([]byte(response)); return
HandleBadRequest(c) ==
    /\ Running
    /\ pc[c] = "badrequest"
    /\ reply(c, BadRequestLine, "returning")

\* what handleConnection does with the result g of getFile: ErrFileNotFound
\* goes to the not-found reply, every other outcome, an error other than
\* ErrFileNotFound included, goes on to the success header
afterGetFile(c, g) ==
    /\ file' = [file EXCEPT ![c] = g.file]
    /\ mime' = [mime EXCEPT ![c] = g.mime]
    /\ err' = [err EXCEPT ![c] = g.err]
    /\ fsops' = [fsops EXCEPT ![c] = @ \o g.ops]
    /\ handle' = [handle EXCEPT ![c] = IF g.file # NoFile THEN "open" ELSE "none"]
    /\ IF g.err = ErrFileNotFound
       THEN pc' = [pc EXCEPT ![c] = "notfound"]
       ELSE pc' = [pc EXCEPT ![c] = "header"]
    /\ UNCHANGED <<server, crashed, conn, request, path, off, writes, werr>>

\* the getFile step reading the path from a variable all handlers share
HandleGetFileSharedPath(c) ==
    /\ Running
    /\ pc[c] = "resolving"
    /\ afterGetFile(c, GetFile(path[1], wd))

\* file, mime, err := getFile(path)
HandleGetFile(c) ==
    /\ Running
    /\ pc[c] = "resolving"
    /\ afterGetFile(c, GetFile(path[c], wd))

\* the not-found reply falling through to the success header
HandleNotFoundNoReturn(c) ==
    /\ Running
    /\ pc[c] = "notfound"
    /\ reply(c, NotFoundLine, "header")

\* response := "51 Not Found\r\n"; conn.Write([]byte(response)); return
HandleNotFound(c) ==
    /\ Running
    /\ pc[c] = "notfound"
    /\ reply(c, NotFoundLine, "returning")

\* the header step taking the media type from a variable all handlers share
HandleHeaderSharedMime(c) ==
    /\ Running
    /\ pc[c] = "header"
    /\ writes' = [writes EXCEPT ![c] = Append(@, SuccessLine(mime[1]))]
    /\ \E ok \in IOResults :
          IF ok
          THEN /\ pc' = [pc EXCEPT ![c] = "body"]
               /\ err' = [err EXCEPT ![c] = ErrNone]
               /\ UNCHANGED werr
          ELSE /\ pc' = [pc EXCEPT ![c] = "returning"]
               /\ werr' = [werr EXCEPT ![c] = TRUE]
               /\ err' = [err EXCEPT ![c] = "write error"]
    /\ UNCHANGED <<server, crashed, conn, request, path, file, mime, handle,
                   off, fsops>>

\* _, err = conn.Write([]byte(fmt.Sprintf("20 %s\r\n", mime))): err is now
\* the result of the write, and a failed write returns without calling
\* sendFile
HandleHeader(c) ==
    /\ Running
    /\ pc[c] = "header"
    /\ writes' = [writes EXCEPT ![c] = Append(@, SuccessLine(mime[c]))]
    /\ \E ok \in IOResults :
          IF ok
          THEN /\ pc' = [pc EXCEPT ![c] = "body"]
               /\ err' = [err EXCEPT ![c] = ErrNone]
               /\ UNCHANGED werr
          ELSE /\ pc' = [pc EXCEPT ![c] = "returning"]
               /\ werr' = [werr EXCEPT ![c] = TRUE]
               /\ err' = [err EXCEPT ![c] = "write error"]
    /\ UNCHANGED <<server, crashed, conn, request, path, file, mime, handle,
                   off, fsops>>

\* sendFile: one round of io.Copy(conn, file).  Reading a nil file or a
\* directory fails before any write; the end of the file and a failed write
\* end the copy, and sendFile is left with its deferred file.Close() to run.
HandleSendFile(c) ==
    /\ Running
    /\ pc[c] = "body"
    /\ IF file[c] = NoFile
       THEN /\ err' = [err EXCEPT ![c] = "invalid argument"]
            /\ pc' = [pc EXCEPT ![c] = "copied"]
            /\ UNCHANGED <<writes, off, werr>>
       ELSE IF FS[file[c]].kind = "dir"
       THEN /\ err' = [err EXCEPT ![c] = "is a directory"]
            /\ pc' = [pc EXCEPT ![c] = "copied"]
            /\ UNCHANGED <<writes, off, werr>>
       ELSE IF off[c] >= Len(FS[file[c]].data)
       THEN /\ pc' = [pc EXCEPT ![c] = "copied"]
            /\ UNCHANGED <<writes, off, werr, err>>
       ELSE LET data == FS[file[c]].data
                n == Min(ChunkSize, Len(data) - off[c])
            IN  /\ writes' = [writes EXCEPT
                                 ![c] = Append(@, SubSeq(data, off[c] + 1, off[c] + n))]
                /\ \E ok \in IOResults :
                      IF ok
                      THEN /\ off' = [off EXCEPT ![c] = @ + n]
                           /\ UNCHANGED <<pc, werr, err>>
                      ELSE /\ werr' = [werr EXCEPT ![c] = TRUE]
                           /\ err' = [err EXCEPT ![c] = "write error"]
                           /\ pc' = [pc EXCEPT ![c] = "copied"]
                           /\ UNCHANGED off
    /\ UNCHANGED <<server, crashed, conn, request, path, file, mime, handle,
                   fsops>>

\* defer file.Close() of sendFile (Close on a nil file does nothing); then
\* handleConnection logs the error of sendFile, if any, and returns
deferredFileClose(c) ==
    /\ Running
    /\ pc[c] = "copied"
    /\ handle' = [handle EXCEPT ![c] = IF @ = "open" THEN "closed" ELSE @]
    /\ pc' = [pc EXCEPT ![c] = "returning"]
    /\ UNCHANGED <<server, crashed, conn, request, path, file, mime, err, off,
                   writes, fsops, werr>>

\* defer conn.Close(): the socket is closed when the handler returns, and
\* when it panics: the deferred call runs, then the panic ends the process
deferredClose(c) ==
    /\ Running
    /\ pc[c] \in {"returning", "panicking"}
    /\ conn' = [conn EXCEPT ![c] = "closed"]
    /\ pc' = [pc EXCEPT ![c] = IF @ = "panicking" THEN "panicked" ELSE "closed"]
    /\ crashed' = (pc[c] = "panicking")
    /\ UNCHANGED <<server, request, path, file, mime, err, handle, off,
                   writes, fsops, werr>>

Next ==
    \/ \E c \in Conns : Accept(c)
    \/ Dispatch
    \/ AcceptError
    \/ LoopSelect
    \/ SignalReceive
    \/ SignalCloseListener
    \/ SignalCloseChan
    \/ ProcessExit
    \/ \E c \in Conns : HandleRead(c)
    \/ \E c \in Conns : HandleParse(c)
    \/ \E c \in Conns : HandleBadRequest(c)
    \/ \E c \in Conns : HandleGetFile(c)
    \/ \E c \in Conns : HandleNotFound(c)
    \/ \E c \in Conns : HandleHeader(c)
    \/ \E c \in Conns : HandleSendFile(c)
    \/ \E c \in Conns : deferredFileClose(c)
    \/ \E c \in Conns : deferredClose(c)

Spec == Init /\ [][Next]_vars

\* Scheduling: every task that can take a step of its own eventually takes
\* it (the signal task once it has the signal, the accept loop, the
\* handlers, whose clients send or hang up), and Accept on a closed listener
\* returns its error.  The signal itself, a client connecting and a
\* transient Accept error are up to the environment.
Fairness ==
    /\ WF_vars(SignalCloseListener)
    /\ WF_vars(SignalCloseChan)
    /\ WF_vars(Dispatch)
    /\ WF_vars(AcceptError /\ listener = "closed")
    /\ WF_vars(LoopSelect)
    /\ WF_vars(ProcessExit)
    /\ \A c \in Conns :
          /\ WF_vars(HandleRead(c))
          /\ WF_vars(HandleParse(c))
          /\ WF_vars(HandleBadRequest(c))
          /\ WF_vars(HandleGetFile(c))
          /\ WF_vars(HandleNotFound(c))
          /\ WF_vars(HandleHeader(c))
          /\ WF_vars(HandleSendFile(c))
          /\ WF_vars(deferredFileClose(c))
          /\ WF_vars(deferredClose(c))

FairSpec == Spec /\ Fairness

(***************************************************************************)
(* Vocabulary of the properties.                                           *)
(***************************************************************************)
RECURSIVE Concat(_)
Concat(ws) == IF ws = <<>> THEN "" ELSE Head(ws) \o Concat(Tail(ws))

\* every byte handed to conn.Write on connection c, in order
Sent(c) == Concat(writes[c])

Digits == {"0", "1", "2", "3", "4", "5", "6", "7", "8", "9"}

\* "<two digits> <meta>\r\n"
IsStatusLine(w) ==
    /\ Len(w) >= 5
    /\ At(w, 1) \in Digits
    /\ At(w, 2) \in Digits
    /\ At(w, 3) = " "
    /\ HasSuffix(w, "\r\n")

\* the handler of c has read its request
HasRead(c) == pc[c] \notin {"pending", "accepted", "reading"} /\ err[c] # "read error"

\* the handler of c is past parseRequestPath
Parsed(c) == HasRead(c) /\ pc[c] # "parsing"

HasScheme(req) == HasPrefix(TrimSpace(req), "gemini://")

AfterScheme(req) == SubSeq(TrimSpace(req), 10, Len(TrimSpace(req)))

\* scheme prefix present and a "/" after the host
WellFormed(req) == HasScheme(req) /\ IndexSlash(AfterScheme(req)) > 0

\* scheme prefix present and no "/" after it
BareHost(req) == HasScheme(req) /\ IndexSlash(AfterScheme(req)) = 0

\* the path of a well-formed request: what follows the first "/" after the host
UrlPath(req) ==
    SubSeq(AfterScheme(req), IndexSlash(AfterScheme(req)) + 1,
           Len(AfterScheme(req)))

\* the server root: the directory the --path flag names
RootDir == EvalSymlinks(Join(Cwd, ServeFlag)).path

\* the file a well-formed request names, before any symlink is followed
Target(req) ==
    LET p == UrlPath(req)
    IN  Join(RootDir,
             IF p = "" \/ At(p, Len(p)) = "/" THEN p \o "index.gmi" ELSE p)

\* containment by path components
InsideRoot(p) == p = RootDir \/ HasPrefix(p, RootDir \o "/")

\* the outcome of resolving the path of a well-formed request
Resolution(req, w) ==
    getFile(IF UrlPath(req) = "" \/ At(UrlPath(req), Len(UrlPath(req))) = "/"
            THEN UrlPath(req) \o "index.gmi" ELSE UrlPath(req), w)

\* the response to a request handled alone with no transport error
AloneResponse(req, w) ==
    IF ~HasScheme(req) THEN BadRequestLine
    ELSE IF BareHost(req) THEN ""
    ELSE LET g == Resolution(req, w)
         IN  IF g.err = ErrFileNotFound THEN NotFoundLine
             ELSE SuccessLine(g.mime)
                     \o (IF g.file = NoFile THEN "" ELSE FS[g.file].data)

\* what the properties need to know of a request, computed once for every
\* request a client may send
FactsOf ==
    [w \in WorkingDirs |->
      [req \in AllRequests |->
        [scheme |-> HasScheme(req),
         wellFormed |-> WellFormed(req),
         bareHost |-> BareHost(req),
         urlPath |-> IF WellFormed(req) THEN UrlPath(req) ELSE "",
         target |-> IF WellFormed(req) THEN Target(req) ELSE "",
         resolveErr |-> IF WellFormed(req) THEN Resolution(req, w).err
                        ELSE ErrNone,
         alone |-> AloneResponse(req, w)]]]

\* those facts for the request connection c has read
Req(c) == FactsOf[wd][request[c]]

(***************************************************************************)
(* C1.  Path confinement: getFile opens a file only if the symlink-resolved *)
(* absolute path lies inside the server root, by path components; a path   *)
(* that resolves outside the root is never opened.                          *)
(***************************************************************************)
C1_PathConfinement ==
    \A c \in Conns : file[c] # NoFile => InsideRoot(file[c])

(***************************************************************************)
(* C2.  A well-formed request whose target file does not exist under the   *)
(* server root is answered with exactly "51 Not Found\r\n" and nothing     *)
(* else, and the connection is closed.                                     *)
(***************************************************************************)
C2_MissingFileIsNotFound ==
    \A c \in Conns :
        (/\ Parsed(c)
         /\ Req(c).wellFormed
         /\ InsideRoot(Req(c).target)
         /\ ~Exists(Req(c).target))
        => /\ pc[c] \in {"resolving", "notfound", "returning", "closed"}
           /\ pc[c] \in {"resolving", "notfound"} => Sent(c) = ""
           /\ pc[c] \in {"returning", "closed"} => Sent(c) = NotFoundLine

(***************************************************************************)
(* C3.  When resolution fails for a reason other than file-not-found, the  *)
(* handler writes a single 5x status line, no body and never a "20" line,  *)
(* and closes.                                                             *)
(***************************************************************************)
C3_ResolutionFailureIs5x ==
    \A c \in Conns :
        (/\ Parsed(c)
         /\ Req(c).wellFormed
         /\ Req(c).resolveErr \in {ErrBadRequest, ErrNaughty})
        => /\ \A i \in 1..Len(writes[c]) : ~HasPrefix(writes[c][i], "20")
           /\ pc[c] \notin {"resolving", "header"}
                => /\ pc[c] \in {"returning", "closed"}
                   /\ Len(writes[c]) = 1
                   /\ HasPrefix(writes[c][1], "5")

(***************************************************************************)
(* C4.  A request with the scheme prefix and no "/" after it gets the      *)
(* bad-request status line and the connection is closed; the handler does  *)
(* not panic.                                                              *)
(***************************************************************************)
C4_BareHostIsBadRequest ==
    \A c \in Conns :
        (Parsed(c) /\ Req(c).bareHost)
        => /\ pc[c] \in {"badrequest", "returning", "closed"}
           /\ pc[c] = "badrequest" => Sent(c) = ""
           /\ pc[c] \in {"returning", "closed"} => Sent(c) = BadRequestLine
           /\ ~crashed

(***************************************************************************)
(* C5.  A request that, trimmed, does not start with "gemini://" is        *)
(* answered with exactly "59 Bad Request\r\n" and no body, and no          *)
(* filesystem operation is performed for that connection.                  *)
(***************************************************************************)
C5_NoSchemeIsBadRequest ==
    \A c \in Conns :
        (HasRead(c) /\ ~Req(c).scheme)
        => /\ fsops[c] = <<>>
           /\ file[c] = NoFile
           /\ pc[c] \in {"parsing", "badrequest", "returning", "closed"}
           /\ pc[c] \in {"parsing", "badrequest"} => writes[c] = <<>>
           /\ pc[c] \in {"returning", "closed"}
                 => writes[c] = <<"59 Bad Request\r\n">>

C5_Witness ==
    \E c \in Conns :
        /\ HasRead(c)
        /\ request[c] = "http://h/a.gmi\r\n"
        /\ pc[c] = "closed"
        /\ Len(writes[c]) = 1

(***************************************************************************)
(* C6.  On every connection whose request has been read, exactly one       *)
(* status line has been written when the connection ends: never two, never *)
(* zero.                                                                   *)
(***************************************************************************)
StatusLines(c) ==
    Cardinality({i \in 1..Len(writes[c]) : IsStatusLine(writes[c][i])})

C6_ExactlyOneStatusLine ==
    \A c \in Conns :
        /\ StatusLines(c) <= 1
        /\ (HasRead(c) /\ pc[c] \in {"closed", "panicked"}) => StatusLines(c) = 1

(***************************************************************************)
(* C7.  Body bytes are written only after a "20" status line on the same   *)
(* connection; nothing is written after a "51" or "59" line; no body is    *)
(* written when no file was opened.                                        *)
(***************************************************************************)
C7_BodyOnlyAfterSuccess ==
    \A c \in Conns :
        /\ \A i \in 1..Len(writes[c]) :
              ~IsStatusLine(writes[c][i])
                 => i > 1 /\ HasPrefix(writes[c][1], "20 ")
        /\ (Len(writes[c]) > 0 /\ (HasPrefix(writes[c][1], "51")
                                    \/ HasPrefix(writes[c][1], "59")))
              => Len(writes[c]) = 1
        /\ handle[c] = "none" => Len(writes[c]) <= 1

C7_Witness ==
    \E c \in Conns :
        /\ pc[c] = "closed"
        /\ Len(writes[c]) >= 2
        /\ HasPrefix(writes[c][1], "20 ")
        /\ ~IsStatusLine(writes[c][2])
        /\ handle[c] = "closed"

(***************************************************************************)
(* C8.  Round trip: a well-formed request for a readable regular file      *)
(* under the root whose extension is .gmi, with no transport error, gets   *)
(* the header "20 text/gemini" followed by exactly the file's bytes, and   *)
(* the connection is closed.                                               *)
(***************************************************************************)
GmiRequest(c) ==
    /\ Parsed(c)
    /\ Req(c).wellFormed
    /\ InsideRoot(Req(c).target)
    /\ Exists(Req(c).target)
    /\ FS[Req(c).target].kind = "file"
    /\ FS[Req(c).target].readable
    /\ Ext(Req(c).target) = ".gmi"
    /\ pc[c] = "closed"
    /\ ~werr[c]

\* the header is "20 text/gemini\r\n", or the same with the charset
\* parameter package mime adds to a text type
C8_RoundTrip ==
    \A c \in Conns :
        GmiRequest(c)
        => \/ Sent(c) = "20 text/gemini\r\n" \o FS[Req(c).target].data
           \/ Sent(c) = "20 text/gemini; charset=utf-8\r\n"
                            \o FS[Req(c).target].data

(***************************************************************************)
(* C9.  Default document: a parsed path that is empty or ends with "/" is  *)
(* handed to the resolver with "index.gmi" appended; any other parsed path *)
(* is handed over unchanged.                                               *)
(***************************************************************************)
C9_DefaultDocument ==
    \A c \in Conns :
        (Parsed(c) /\ Req(c).wellFormed)
        => LET p == Req(c).urlPath
           IN  /\ (p = "" \/ At(p, Len(p)) = "/") => path[c] = p \o "index.gmi"
               /\ (p # "" /\ At(p, Len(p)) # "/") => path[c] = p

C9_Witness ==
    /\ \E c \in Conns :
        /\ Parsed(c)
        /\ fsops[c] # <<>>
        /\ Req(c).urlPath \in {"", "docs/"}
        /\ path[c] \in {"index.gmi", "docs/index.gmi"}

(***************************************************************************)
(* C10.  Connection isolation: under every interleaving, what is written   *)
(* to a connection is the response its own request gets when handled       *)
(* alone; nothing of another connection's request, header or body appears  *)
(* in it.                                                                  *)
(***************************************************************************)
C10_ConnectionIsolation ==
    \A c \in Conns :
        HasRead(c)
        => /\ HasPrefix(Req(c).alone, Sent(c))
           /\ (pc[c] = "closed" /\ ~werr[c])
                 => Sent(c) = Req(c).alone

C10_Witness ==
    \E c, d \in Conns :
        /\ c # d
        /\ pc[c] = "body" /\ off[c] > 0
        /\ pc[d] = "body" /\ off[d] > 0
        /\ file[c] # file[d]

(***************************************************************************)
(* C11.  Graceful shutdown does not abort in-flight work: a handler that   *)
(* was dispatched before the termination signal arrived runs, once         *)
(* shutdown has begun, to its own completion: its connection reaches       *)
(* Closed.  Nothing cuts it short.                                         *)
(***************************************************************************)
InFlight ==
    {"reading", "parsing", "badrequest", "resolving", "notfound", "header",
     "body", "copied", "returning"}

C11_InFlightHandlersComplete ==
    \A c \in Conns :
        []((sigpc = "wait" /\ pc[c] \in InFlight)
              => [](sigpc # "wait" => <>(pc[c] = "closed")))

(***************************************************************************)
(* C12.  No new connection is accepted after shutdown begins.              *)
(***************************************************************************)
\* this step makes Accept return a connection
AcceptReturns == \E c \in Conns : pc[c] # "accepted" /\ pc'[c] = "accepted"

\* this step dispatches a handleConnection task
Dispatches == \E c \in Conns : pc[c] # "reading" /\ pc'[c] = "reading"

\* as claimed: once the signal task has received the signal, Accept never
\* again returns a connection and no handler is dispatched
C12_NoAcceptAfterSignal ==
    [][sigpc # "wait" => ~AcceptReturns /\ ~Dispatches]_vars

\* as amended: once the signal task's listener.Close() has returned, Accept
\* never again returns a connection
C12_NoAcceptAfterClose ==
    [][(sigpc = "signal" \/ sigpc = "done") => ~AcceptReturns]_vars

\* shutdown has closed the listener while a client was still waiting to be
\* accepted, and the loop has gone round Accept since
C12_Witness ==
    /\ sigpc \in {"signal", "done"}
    /\ acceptErr = ErrClosed
    /\ \E c \in Conns : c <= limit /\ pc[c] = "pending"

(***************************************************************************)
(* C13.  Determinism: two connections that carry the same request get      *)
(* byte-identical responses, whatever else is served before, between or    *)
(* beside them: at every moment what one has been sent is a prefix of what *)
(* the other has been sent (or the reverse), and once both handlers have   *)
(* finished with no transport error the two responses are equal, and equal *)
(* to the response that request gets from a server with no other           *)
(* connection.                                                             *)
(***************************************************************************)
\* the handler of c has finished and no read or write of its socket failed
Complete(c) == HasRead(c) /\ pc[c] = "closed" /\ ~werr[c]

C13_SameRequestSameResponse ==
    \A c, d \in Conns :
        (c # d /\ HasRead(c) /\ HasRead(d) /\ request[c] = request[d])
        => /\ HasPrefix(Sent(c), Sent(d)) \/ HasPrefix(Sent(d), Sent(c))
           /\ (Complete(c) /\ Complete(d))
                 => Sent(c) = Sent(d) /\ Sent(c) = Req(c).alone

\* two connections carried the same request, a connection accepted between
\* them carried another one, and all three were served to the end
C13_Witness ==
    \E c, e, d \in Conns :
        /\ c < e /\ e < d
        /\ Complete(c) /\ Complete(e) /\ Complete(d)
        /\ request[c] = "gemini://h/a.gmi\r\n"
        /\ request[d] = request[c]
        /\ request[e] = "gemini://h/notes.md\r\n"
        /\ Len(writes[c]) >= 2 /\ Len(writes[d]) >= 2 /\ Len(writes[e]) >= 2

(***************************************************************************)
(* C14.  Shutdown versus genuine accept error: an Accept error caused by   *)
(* the listener being closed for shutdown is never logged as "Failed to    *)
(* accept connection" and never retried (the loop ends), under every       *)
(* interleaving of listener.Close and close(shutdownChan) with the loop;   *)
(* an Accept error with no shutdown in progress is logged and the loop     *)
(* goes on accepting.                                                      *)
(***************************************************************************)
C14_ShutdownErrorIsQuiet ==
    /\ ErrClosed \notin failLogged
    /\ acceptErr = ErrClosed => looppc \in {"accepterr", "returned"}
    /\ (acceptErr = ErrTransient /\ looppc = "accept")
          => ErrTransient \in failLogged

(***************************************************************************)
(* C15.  Every success status line carries a non-empty media type: the     *)
(* type mapped from the extension of the resolved file (.gmi, .gmni,       *)
(* .gemini: text/gemini; .md: text/markdown), "application/octet-stream"   *)
(* for an extension with no mapping; "20 \r\n" is never written.           *)
(***************************************************************************)
\* the media type the mapping gives an extension (parameters aside):
\* text/gemini and text/markdown for the registered ones, the type of the
\* built-in table for the ones Go knows, the default for any other
MappedType(ext) ==
    IF ToLower(ext) \in {".gmi", ".gmni", ".gemini"} THEN "text/gemini"
    ELSE IF ToLower(ext) = ".md" THEN "text/markdown"
    ELSE IF ToLower(ext) \in DOMAIN MimeTypes THEN MimeTypes[ToLower(ext)]
    ELSE "application/octet-stream"

\* the meta of a status line: what lies between "20 " and the line end
Meta(line) == SubSeq(line, 4, Len(line) - 2)

C15_SuccessHasMediaType ==
    \A c \in Conns :
        (Len(writes[c]) > 0 /\ HasPrefix(writes[c][1], "20 "))
        => /\ Meta(writes[c][1]) # ""
           /\ file[c] # NoFile
                 => HasPrefix(Meta(writes[c][1]), MappedType(Ext(file[c])))

(***************************************************************************)
(* C16.  File-handle lifecycle: whenever a handler has finished, a file    *)
(* handle that getFile opened for it is closed, whether streaming          *)
(* completed, a body write failed or the write of the "20" header failed.  *)
(***************************************************************************)
C16_FileHandleClosed ==
    \A c \in Conns : pc[c] = "closed" => handle[c] # "open"

(***************************************************************************)
(* C17.  The socket is closed on every exit of handleConnection: whichever *)
(* way the handler leaves (read error, parse failure, not found, other     *)
(* resolution failure, header write error, body write error, success, or a *)
(* panic), its conn.Close() follows: the connection ends in Closed; a      *)
(* socket is closed only by its handler leaving, and nothing is written to *)
(* a socket after it was closed.                                           *)
(***************************************************************************)
\* the handler of c has left: a return or a panic, deferred calls pending
Leaving(c) == pc[c] \in {"returning", "panicking"}

C17_SocketClosedOnExit ==
    /\ \A c \in Conns : Leaving(c) ~> (conn[c] = "closed")
    /\ [](\A c \in Conns : conn[c] = "closed" <=> pc[c] \in {"closed", "panicked"})
    /\ [][\A c \in Conns : conn[c] = "closed" => writes'[c] = writes[c]]_vars

(***************************************************************************)
(* C18.  Transport errors are one-shot and silent: a handler whose read    *)
(* failed writes nothing, parses nothing, touches no file, and closes the  *)
(* connection; a handler one of whose writes failed makes no further write *)
(* and closes the connection.                                              *)
(***************************************************************************)
C18_TransportErrorsAreOneShot ==
    /\ [](\A c \in Conns :
             err[c] = "read error"
               => /\ pc[c] \in {"returning", "closed"}
                  /\ writes[c] = <<>>
                  /\ request[c] = "" /\ path[c] = ""
                  /\ fsops[c] = <<>> /\ file[c] = NoFile)
    /\ [][\A c \in Conns : werr[c] => writes'[c] = writes[c]]_vars
    /\ \A c \in Conns :
          (err[c] = "read error" \/ werr[c]) ~> (conn[c] = "closed")

(***************************************************************************)
(* C19.  Fault isolation between connections: whatever bytes a client has  *)
(* sent, the failure of its handler does not end the accept loop and does  *)
(* not keep another connection, dispatched or yet to be accepted, from     *)
(* its response: the process is not brought down.                          *)
(***************************************************************************)
C19_FaultIsolation ==
    \A c \in Conns :
        HasRead(c)
        => /\ ~crashed
           /\ \A d \in Conns :
                 (d # c /\ pc[d] \in InFlight \cup {"accepted"}) => Running

(***************************************************************************)
(* C20.  Shutdown liveness: once the termination signal is delivered,      *)
(* under fair scheduling of the signal task and the accept loop, the       *)
(* accept loop eventually exits: _start returns, whether the loop was      *)
(* blocked in Accept or handling an Accept error when the listener was     *)
(* closed.                                                                 *)
(***************************************************************************)
C20_ShutdownLiveness == (sigpc # "wait") ~> (looppc = "returned")

=============================================================================
